---- MODULE Spec2Model ----
(***************************************************************************)
(* Playback-state persistence of the web player wrapper (src/main.cpp):    *)
(* the 4 s capture timer and its runJavaScript callback, the loadFinished  *)
(* handler that restores the persisted state, and the injected restore     *)
(* script with its 500 ms polling loop.                                    *)
(*                                                                         *)
(* Texts (QString / QByteArray / JS strings) are records                   *)
(*   [kind, s, m]: kind "raw" is a text that is not JSON (s holds it),     *)
(*   kind "obj" is the text of a JSON object whose members appear in the   *)
(*   order of the sequence m, kind "invalid" is an invalid QVariant and    *)
(*   kind "none" is the absent file.                                       *)
(* JSON values are records [t, s, n, b] with t the JSON type.              *)
(***************************************************************************)
EXTENDS Integers, Sequences, FiniteSets, TLC

VARIABLES
    stateFile,  \* the contents of player_state.json, or NoFile
    surface,    \* the document the view shows (the live playback state)
    rs,         \* the restore script injected into that document
    hist        \* history of the capture callbacks, kept under SpecCapture

vars == <<stateFile, surface, rs, hist>>

----------------------------------------------------------------------------
(* Bounds of the model *)

\* the wall clock readings a capture may stamp are 0..MaxStamp
MaxStamp == 1

(* Program constants *)

\* "tries > 20" of the polling loop
MaxTries == 20

----------------------------------------------------------------------------
(* JSON values and texts *)

JStr(x) == [t |-> "str", s |-> x, n |-> 0, b |-> FALSE]
JNum(x) == [t |-> "num", s |-> "", n |-> x, b |-> FALSE]
JBool(x) == [t |-> "bool", s |-> "", n |-> 0, b |-> x]
JUndefined == [t |-> "undefined", s |-> "", n |-> 0, b |-> FALSE]

Raw(x) == [kind |-> "raw", s |-> x, m |-> <<>>]
ObjText(members) == [kind |-> "obj", s |-> "", m |-> members]
InvalidVariant == [kind |-> "invalid", s |-> "", m |-> <<>>]
NoFile == [kind |-> "none", s |-> "", m |-> <<>>]

\* QJsonObject keeps its members sorted by key
KeyOrder == <<"id", "paused", "saved_at", "time">>

\* QJsonDocument::fromJson: an error for a text that is not JSON (the empty
\* text included), else the object, a later member replacing an earlier one
\* of the same key
fromJson(text) ==
    IF text.kind # "obj"
    THEN [error |-> TRUE, obj |-> <<>>]
    ELSE [error |-> FALSE,
          obj |-> [k \in {text.m[i].k : i \in DOMAIN text.m} |->
                     LET last == CHOOSE i \in DOMAIN text.m :
                                   /\ text.m[i].k = k
                                   /\ \A j \in DOMAIN text.m :
                                        text.m[j].k = k => j <= i
                     IN text.m[last].v]]

\* QJsonDocument(obj).toJson(Compact): the members in key order
toJson(obj) ==
    LET ks == SelectSeq(KeyOrder, LAMBDA k : k \in DOMAIN obj)
    IN ObjText([i \in 1..Len(ks) |-> [k |-> ks[i], v |-> obj[ks[i]]]])

\* QJsonObject::value
value(obj, key) == IF key \in DOMAIN obj THEN obj[key] ELSE JUndefined

\* QJsonValue::toString / toDouble / toBool with their defaults
toString(v, default) == IF v.t = "str" THEN v.s ELSE default
toDouble(v, default) == IF v.t = "num" THEN v.n ELSE default
toBool(v, default) == IF v.t = "bool" THEN v.b ELSE default

\* obj["saved_at"] = ...
insert(obj, key, v) ==
    [k \in DOMAIN obj \cup {key} |-> IF k = key THEN v ELSE obj[k]]

\* QDateTime::toString(Qt::ISODate) of clock reading n
ISODate(n) == ToString(n)

Min(a, b) == IF a <= b THEN a ELSE b
Max(a, b) == IF a >= b THEN a ELSE b

----------------------------------------------------------------------------
(* The content surface: the document shown by the QWebEngineView.          *)
(*   kind     "audio": document.querySelector('audio') finds an element;   *)
(*            "player": no audio element, window.player is there;          *)
(*            "none": neither                                              *)
(*   hash     location.hash                                                *)
(*   ready    audio.readyState > 0 (the duration is known from then on)    *)
(*   duration audio.duration once ready                                    *)
(*   time     audio.currentTime, or what player.getCurrentTime() returns   *)
(*   paused   audio.paused, or !player.isPlaying()                         *)

Hashes == {"", "#/song"}
\* location.pathname of the player URL
Pathname == "/st/webplayer"
Durations == {0, 200}
AudioTimes == {0, 200}
PlayerTimes == {-5, 0, 500}

BlankSurface ==
    [kind |-> "none", hash |-> "", ready |-> FALSE, duration |-> 0,
     time |-> 0, paused |-> TRUE]

\* a document as a completed load leaves it: nothing played yet, an audio
\* element still without its metadata (MediaReady may come before the
\* restore script runs)
FreshDocs ==
    {[BlankSurface EXCEPT !.kind = k] : k \in {"audio", "player", "none"}}

\* js_read_state: the JSON text the capture script returns for surface s
js_read_state(s) ==
    LET id == IF s.hash # "" THEN s.hash ELSE Pathname
        time == IF s.kind = "audio" THEN (IF s.time # 0 THEN s.time ELSE 0)
                ELSE IF s.kind = "player" THEN s.time
                ELSE 0
        paused == IF s.kind \in {"audio", "player"} THEN s.paused ELSE TRUE
    IN ObjText(<<[k |-> "id", v |-> JStr(id)],
                 [k |-> "time", v |-> JNum(time)],
                 [k |-> "paused", v |-> JBool(paused)]>>)

\* what the callback of runJavaScript(js_read_state) may be handed: the
\* script's value, an invalid QVariant, or a string that is empty or not JSON
NotJson == {"undefined", "{id:1"}
CaptureResults(s) ==
    {js_read_state(s), InvalidVariant, Raw("")} \cup {Raw(x) : x \in NotJson}

\* the callback reads the clock only for a result that parses, and opens the
\* file only for a result that is valid and not empty
StampsRead(result) == IF fromJson(result).error THEN {0} ELSE 0..MaxStamp
OpensTried(result) ==
    IF result.kind = "invalid" \/ result = Raw("") THEN {TRUE} ELSE BOOLEAN

\* (variant) the fallback branch left out: a result that does not parse is
\* dropped
CaptureCallbackDropsRaw(file, result, stamp, openOk) ==
    IF result.kind = "invalid" THEN file
    ELSE IF result = Raw("") THEN file
    ELSE LET doc == fromJson(result)
         IN IF doc.error
            THEN file
            ELSE IF openOk
                 THEN toJson(insert(doc.obj, "saved_at", JStr(ISODate(stamp))))
                 ELSE file

\* (variant) the clock reading stored under the key "time"
CaptureCallbackStampsTime(file, result, stamp, openOk) ==
    IF result.kind = "invalid" THEN file
    ELSE IF result = Raw("") THEN file
    ELSE LET doc == fromJson(result)
         IN IF doc.error
            THEN IF openOk THEN result ELSE file
            ELSE IF openOk
                 THEN toJson(insert(insert(doc.obj, "saved_at",
                                           JStr(ISODate(stamp))),
                                    "time", JNum(stamp)))
                 ELSE file

\* (variant) the file opened for writing, and so truncated, before the
\* result is looked at
CaptureCallbackOpensFirst(file, result, stamp, openOk) ==
    IF result.kind = "invalid" THEN Raw("")
    ELSE IF result = Raw("") THEN Raw("")
    ELSE LET doc == fromJson(result)
         IN IF doc.error
            THEN IF openOk THEN result ELSE file
            ELSE IF openOk
                 THEN toJson(insert(doc.obj, "saved_at", JStr(ISODate(stamp))))
                 ELSE file

\* the callback of the capture script (the stateTimer lambda's inner lambda):
\* the contents of the state file after it ran
CaptureCallback(file, result, stamp, openOk) ==
    IF result.kind = "invalid" THEN file
    ELSE IF result = Raw("") THEN file
    ELSE LET doc == fromJson(result)
         IN IF doc.error
            THEN IF openOk THEN result ELSE file
            ELSE IF openOk
                 THEN toJson(insert(doc.obj, "saved_at", JStr(ISODate(stamp))))
                 ELSE file

----------------------------------------------------------------------------
(* Restore: the loadFinished handler and the script it injects *)

\* (variant) the parse error not checked
ReturnPointNoParseCheck(ok, file, openOk) ==
    IF ~ok THEN "failed"
    ELSE IF file.kind = "none" THEN "absent"
    ELSE IF ~openOk THEN "unreadable"
    ELSE ""

\* the early returns of the loadFinished handler, in their order: the place
\* it returns at, or "" when it goes on to inject the restore script
ReturnPoint(ok, file, openOk) ==
    IF ~ok THEN "failed"
    ELSE IF file.kind = "none" THEN "absent"
    ELSE IF ~openOk THEN "unreadable"
    ELSE IF fromJson(file).error THEN "unparsable"
    ELSE ""

\* the handler opens the file only after a successful load found it
ReadsTried(ok, file) == IF ok /\ file.kind # "none" THEN BOOLEAN ELSE {TRUE}

\* the JS object the restore script receives as "state": the QJsonObject
\* the handler builds, written by toJson and read back as a JS literal
RestoredState(obj) ==
    LET state == [id |-> JStr(toString(value(obj, "id"),
                                       toString(value(obj, "id"), ""))),
                  time |-> JNum(toDouble(value(obj, "time"), 0)),
                  paused |-> JBool(toBool(value(obj, "paused"), TRUE))]
        stateJson == toJson(state)
        lit == fromJson(stateJson).obj
    IN [id |-> lit["id"].s, time |-> lit["time"].n, paused |-> lit["paused"].b]

NoState == [id |-> "", time |-> 0, paused |-> TRUE]

\* the history of the capture callbacks:
\*   same    "once" after a callback wrote a descriptor, "again" after a
\*           further one wrote with the surface still as it was, "no" once
\*           the surface changed or something else was written
\*   raw     the result of the last callback when it was a string, not empty
\*           and not JSON, else ""
\*   opened  whether the last callback's open of the file succeeded
NoHistory == [same |-> "no", raw |-> "", opened |-> TRUE]
NoMembers == [id |-> JUndefined, time |-> JUndefined, paused |-> JUndefined]

\* the members id, time and paused of the object a text holds, as they stand
\* in the text
Members(text) ==
    LET obj == fromJson(text).obj
    IN [id |-> value(obj, "id"), time |-> value(obj, "time"),
        paused |-> value(obj, "paused")]

\* the restore script of the current document:
\*   phase  Idle (none injected), Attempting (injected, not yet run),
\*          Polling (setInterval active), Succeeded, Exhausted, or Fallback
\*          (the branch without an audio element ran)
\*   state  the script's argument; tries: the script's counter
\*   polls  the calls of setOnce made by the interval callback
\*   sets   the positions assigned to audio.currentTime or passed to
\*          player.seek, in order; plays: the calls of play()
\*   ok     the flag of the load event (history; FALSE before the first)
\*   found  what the state file was at the load event: "none", "empty",
\*          "raw" or "obj" (history)
\*   from   the members of the artifact the handler read (history)
IdleScript ==
    [phase |-> "Idle", state |-> NoState, tries |-> 0, polls |-> 0,
     sets |-> <<>>, plays |-> 0, ok |-> FALSE, found |-> "none",
     from |-> NoMembers]

Found(file) ==
    IF file.kind = "none" THEN "none"
    ELSE IF file = Raw("") THEN "empty"
    ELSE file.kind

\* Math.min(state.time, audio.duration || state.time)
SeekTarget(time, duration) ==
    Min(time, IF duration # 0 THEN duration ELSE time)

\* the media element's own seek: the new position lies within the resource
AudioSeek(s, v) == [s EXCEPT !.time = Max(0, Min(v, s.duration))]

\* (variant) each run of setOnce takes the descriptor the file holds then
ScriptStateRereadsFile(r, file) ==
    IF fromJson(file).error THEN r.state
    ELSE RestoredState(fromJson(file).obj)

\* the descriptor a run of setOnce works on: the argument the script was
\* called with (the file is not read again)
ScriptState(r, file) == r.state

\* "if (!state.paused) audio.play()": the calls of play() one positioning adds
PlayCalls(paused) == IF paused THEN 0 ELSE 1

\* setOnce of the restore script on a ready element: the script and the
\* surface after it; playOk: whether play() is let through (a rejection is
\* swallowed by .catch)
SetOnceApply(r, s, file, playOk) ==
    LET state == ScriptState(r, file)
        v == SeekTarget(state.time, s.duration)
        s1 == AudioSeek(s, v)
    IN [script |-> [r EXCEPT !.sets = Append(@, v),
                             !.plays = @ + PlayCalls(state.paused)],
        surface |-> IF PlayCalls(state.paused) > 0 /\ playOk
                    THEN [s1 EXCEPT !.paused = FALSE] ELSE s1]

\* the first run of the script: "if (!setOnce()) { ... setInterval ... }"
AfterAttempt(success) == IF success THEN "Succeeded" ELSE "Polling"

\* (variant) "if (tries > 20) clearInterval(t)"
AfterPollNoClearOnSuccess(success, tries) ==
    IF tries > MaxTries THEN "Exhausted" ELSE "Polling"

\* "if (setOnce() || tries > 20) clearInterval(t)": the phase after a poll
\* that made the counter tries
AfterPoll(success, tries) ==
    IF success THEN "Succeeded"
    ELSE IF tries > MaxTries THEN "Exhausted"
    ELSE "Polling"

----------------------------------------------------------------------------
Init ==
    /\ stateFile \in {NoFile, Raw("")}
    /\ surface = BlankSurface
    /\ rs = IdleScript
    /\ hist = NoHistory

\* stateTimer times out: the capture script is evaluated on the page and the
\* callback runs with its result (the timer's own lambda only dispatches the
\* script)
Capture(result, stamp, openOk) ==
    /\ stateFile' = CaptureCallback(stateFile, result, stamp, openOk)
    /\ UNCHANGED <<surface, rs>>

\* QWebEngineView::loadFinished(ok): a new document doc is shown (the scripts
\* of the one before are gone with it) and the handler runs
LoadFinished(ok, openOk, doc) ==
    /\ surface' = doc
    /\ LET seen == [IdleScript EXCEPT !.ok = ok, !.found = Found(stateFile)]
       IN IF ReturnPoint(ok, stateFile, openOk) # ""
          THEN rs' = seen
          ELSE rs' = [seen EXCEPT
                        !.phase = "Attempting",
                        !.state = RestoredState(fromJson(stateFile).obj),
                        !.from = Members(stateFile)]
    /\ UNCHANGED stateFile

\* the injected restore script runs: its first attempt
RestoreRun(playOk) ==
    /\ rs.phase = "Attempting"
    /\ IF surface.kind = "audio"
       THEN IF surface.ready
            THEN LET a == SetOnceApply(rs, surface, stateFile, playOk)
                 IN /\ rs' = [a.script EXCEPT !.phase = AfterAttempt(TRUE)]
                    /\ surface' = a.surface
            ELSE /\ rs' = [rs EXCEPT !.phase = AfterAttempt(FALSE)]
                 /\ UNCHANGED surface
       ELSE IF surface.kind = "player"
       THEN /\ rs' = [rs EXCEPT !.phase = "Fallback",
                                !.sets = Append(@, rs.state.time),
                                !.plays = @ + PlayCalls(rs.state.paused)]
            /\ surface' = [surface EXCEPT
                             !.time = rs.state.time,
                             !.paused = IF PlayCalls(rs.state.paused) > 0
                                           /\ playOk
                                        THEN FALSE ELSE @]
       ELSE /\ rs' = [rs EXCEPT !.phase = "Fallback"]
            /\ UNCHANGED surface
    /\ UNCHANGED stateFile

\* the 500 ms interval of the restore script fires
PollTick(playOk) ==
    /\ rs.phase = "Polling"
    /\ LET tries == rs.tries + 1
           polled == [rs EXCEPT !.tries = tries, !.polls = @ + 1]
       IN IF surface.ready
          THEN LET a == SetOnceApply(polled, surface, stateFile, playOk)
               IN /\ rs' = [a.script EXCEPT !.phase = AfterPoll(TRUE, tries)]
                  /\ surface' = a.surface
          ELSE /\ rs' = [polled EXCEPT !.phase = AfterPoll(FALSE, tries)]
               /\ UNCHANGED surface
    /\ UNCHANGED stateFile

\* the audio element gets its metadata: readyState > 0, duration d
MediaReady(d) ==
    /\ surface.kind = "audio" /\ ~surface.ready
    /\ surface' = [surface EXCEPT !.ready = TRUE, !.duration = d]
    /\ UNCHANGED <<stateFile, rs>>

\* the user or the page plays, pauses or seeks
Playback(t, p) ==
    /\ \/ surface.kind = "audio" /\ surface.ready
          /\ t \in AudioTimes /\ t <= surface.duration
       \/ surface.kind = "player" /\ t \in PlayerTimes
    /\ surface' = [surface EXCEPT !.time = t, !.paused = p]
    /\ surface' # surface
    /\ UNCHANGED <<stateFile, rs>>

\* an in-page navigation to another song
HashChange(h) ==
    /\ h # surface.hash
    /\ surface' = [surface EXCEPT !.hash = h]
    /\ UNCHANGED <<stateFile, rs>>

Next ==
    \/ \E result \in CaptureResults(surface) :
          \E stamp \in StampsRead(result), openOk \in OpensTried(result) :
             Capture(result, stamp, openOk) /\ UNCHANGED hist
    \/ \E ok \in BOOLEAN, doc \in FreshDocs :
          \E openOk \in ReadsTried(ok, stateFile) :
             LoadFinished(ok, openOk, doc) /\ UNCHANGED hist
    \/ \E playOk \in BOOLEAN : RestoreRun(playOk) /\ UNCHANGED hist
    \/ \E playOk \in BOOLEAN : PollTick(playOk) /\ UNCHANGED hist
    \/ \E d \in Durations : MediaReady(d) /\ UNCHANGED hist
    \/ \E t \in AudioTimes \cup PlayerTimes, p \in BOOLEAN :
          Playback(t, p) /\ UNCHANGED hist
    \/ \E h \in Hashes : HashChange(h) /\ UNCHANGED hist

Spec == Init /\ [][Next]_vars

----------------------------------------------------------------------------
(* The capture path with its history kept: the callback, and the events     *)
(* that change the surface the capture script reads (a load event shows a   *)
(* new document; here its handler returns at once, as for a failed load).   *)

\* the history after a capture callback
HistAfterCapture(result, openOk) ==
    LET tried == result.kind # "invalid" /\ result # Raw("")
        written == tried /\ openOk
    IN [same |-> IF ~written THEN hist.same
                 ELSE IF result.kind # "obj" THEN "no"
                 ELSE IF hist.same = "no" THEN "once" ELSE "again",
        raw |-> IF tried /\ result.kind = "raw" THEN result.s ELSE "",
        opened |-> IF tried /\ result.kind = "raw" THEN openOk ELSE TRUE]

\* the history after an event that may have changed the surface
HistAfterEvent ==
    [hist EXCEPT !.same = IF surface' = surface THEN @ ELSE "no"]

NextCapture ==
    \/ \E result \in CaptureResults(surface) :
          \E stamp \in StampsRead(result), openOk \in OpensTried(result) :
             /\ Capture(result, stamp, openOk)
             /\ hist' = HistAfterCapture(result, openOk)
    \/ \E doc \in FreshDocs :
          LoadFinished(FALSE, TRUE, doc) /\ hist' = HistAfterEvent
    \/ \E d \in Durations : MediaReady(d) /\ hist' = HistAfterEvent
    \/ \E t \in AudioTimes \cup PlayerTimes, p \in BOOLEAN :
          Playback(t, p) /\ hist' = HistAfterEvent
    \/ \E h \in Hashes : HashChange(h) /\ hist' = HistAfterEvent

SpecCapture == Init /\ [][NextCapture]_vars

----------------
(* Properties *)

\* the keys of the object a text holds, in the order of the text
Keys(text) == [i \in DOMAIN text.m |-> text.m[i].k]

\* text is what a capture of result at clock reading stamp writes: the
\* result itself when it is not JSON, else one object holding the result's
\* id, time and paused and the stamp
WrittenBy(text, result, stamp) ==
    IF result.kind = "raw"
    THEN text = result
    ELSE /\ text.kind = "obj"
         /\ {text.m[i].k : i \in DOMAIN text.m}
              = {"id", "time", "paused", "saved_at"}
         /\ Len(text.m) = 4
         /\ Members(text) = Members(result)
         /\ value(fromJson(text).obj, "saved_at") = JStr(ISODate(stamp))

\* C1: a restore whose audio element is not ready at the first attempt polls
\* at most 20 times: the element getting ready by the k-th poll (k in 1..20)
\* has its position set once, on a poll no later than the 20th, and a
\* restore that gave up made exactly 20 polls and set nothing.
C1_PollingBoundedBy20 ==
    /\ rs.polls <= MaxTries
    /\ rs.phase = "Exhausted" => rs.polls = MaxTries /\ rs.sets = <<>>
    /\ rs.phase = "Succeeded" /\ rs.polls > 0 => Len(rs.sets) = 1

\* C2: round trip: the artifact read being a descriptor a capture wrote, with
\* a string id, a position >= 0 and a boolean paused, the restore script is
\* handed the same id; a restore that positioned the audio element set the
\* captured position clamped to the duration, one that used the player sought
\* the captured position, and either called play() iff paused was false.
C2_RoundTrip ==
    (/\ rs.phase # "Idle"
     /\ rs.from.id.t = "str" /\ rs.from.paused.t = "bool"
     /\ rs.from.time.t = "num" /\ rs.from.time.n >= 0)
    => /\ rs.state.id = rs.from.id.s
       /\ rs.phase = "Succeeded" =>
            /\ rs.sets = <<Min(rs.from.time.n, surface.duration)>>
            /\ rs.sets[1] <= surface.duration
            /\ (rs.plays = 1) = ~rs.from.paused.b
            /\ rs.plays \in {0, 1}
       /\ rs.phase = "Fallback" /\ surface.kind = "player" =>
            /\ rs.sets = <<rs.from.time.n>>
            /\ (rs.plays = 1) = ~rs.from.paused.b
            /\ rs.plays \in {0, 1}

\* C3: the position set on a ready audio element of duration d is min(p, d)
\* for the persisted position p.
C3_Clamping ==
    rs.phase = "Succeeded" =>
        \A i \in DOMAIN rs.sets :
            rs.sets[i] = IF rs.state.time <= surface.duration
                         THEN rs.state.time ELSE surface.duration

\* C4, as claimed: after a capture callback whose result is a string, not
\* empty and not JSON, the state file equals that result.
C4_FallbackWrite_AsClaimed ==
    hist.raw # "" => stateFile = Raw(hist.raw)

\* C4, amended: after a capture callback whose result is a string, not empty
\* and not JSON, and whose open of the state file succeeded, the state file
\* equals that result: nothing of what it held before is left and no
\* saved_at is added.
C4_FallbackWrite ==
    hist.raw # "" /\ hist.opened => stateFile = Raw(hist.raw)

\* the last callback got a result that is not JSON while a player document
\* was at position 500, opened the file and wrote the result
C4_Witness ==
    /\ hist.raw \in NotJson /\ hist.opened
    /\ stateFile.kind = "raw" /\ stateFile.s = hist.raw
    /\ surface.kind = "player" /\ surface.time = 500

\* C5: a load event that failed, or that found no artifact, an empty one or
\* one that does not parse (a raw fallback artifact included), injects no
\* restore script: nothing is set, sought or played in its document.
C5_RestoreNoOp ==
    (~rs.ok \/ rs.found \in {"none", "empty", "raw"})
    => rs.phase = "Idle" /\ rs.sets = <<>> /\ rs.plays = 0

\* a successful load into a document with an audio element found a raw
\* fallback artifact
C5_Witness ==
    /\ rs.ok /\ rs.found = "raw"
    /\ stateFile.kind = "raw" /\ stateFile.s \in NotJson
    /\ surface.kind = "audio" /\ surface.ready

\* C6: a capture that writes a descriptor while the surface is as it was at
\* the capture that wrote the one in the file writes the same id, time and
\* paused, and again exactly one object of the four members: the two differ
\* at most in saved_at.
C6_Idempotence ==
    [][(/\ hist.same \in {"once", "again"}
        /\ hist'.same = "again")
       => /\ stateFile.kind = "obj" /\ stateFile'.kind = "obj"
          /\ Members(stateFile') = Members(stateFile)
          /\ Keys(stateFile') = Keys(stateFile)
          /\ Len(stateFile'.m) = 4]_vars

\* two captures wrote with the surface unchanged, the later one at another
\* clock reading
C6_Witness ==
    /\ hist.same = "again"
    /\ value(fromJson(stateFile).obj, "saved_at") = JStr(ISODate(1))
    /\ Members(stateFile).time = JNum(200)

\* C7: no position the restore sets or seeks is negative.
C7_NeverNegative ==
    \A i \in DOMAIN rs.sets : rs.sets[i] >= 0

\* C8: Succeeded and Exhausted are terminal: from either, the script changes
\* no more until the next load event starts afresh, and no load event has its
\* position set twice, whether or not the play() after positioning was let
\* through.
C8_Terminal ==
    [][/\ Len(rs'.sets) <= 1 /\ rs'.plays <= 1
       /\ rs.phase \in {"Succeeded", "Exhausted"} =>
            \/ rs' = rs
            \/ /\ rs'.phase \in {"Idle", "Attempting"}
               /\ rs'.sets = <<>> /\ rs'.plays = 0
               /\ rs'.tries = 0]_vars

\* a poll positioned the element and its play() was refused
C8_Witness ==
    /\ rs.phase = "Succeeded" /\ rs.polls > 1
    /\ rs.plays = 1 /\ surface.paused
    /\ Len(rs.sets) = 1

\* C9: the state file changes only in a step of the capture callback whose
\* result is valid and not empty, and then to what that capture writes,
\* whatever the file held; the restore script and the surface are untouched
\* by that step, and no step of the restore changes the file.
C9_OnlyCaptureWrites ==
    [][stateFile' # stateFile =>
         /\ \E result \in CaptureResults(surface) :
              /\ result.kind # "invalid" /\ result # Raw("")
              /\ \E stamp \in StampsRead(result) :
                    WrittenBy(stateFile', result, stamp)
         /\ UNCHANGED <<surface, rs>>]_vars

\* a restore ran to its end and the file still holds the descriptor it read
C9_Witness ==
    /\ rs.phase = "Succeeded"
    /\ stateFile.kind = "obj" /\ Members(stateFile) = rs.from
    /\ rs.from.time = JNum(500)

\* C10: what a restore applies is the descriptor its load event read: while
\* it polls and after, its argument is that descriptor, and the position and
\* the play() of a success are those of that descriptor, whatever captures
\* have written to the file meanwhile.
C10_AppliesWhatItRead ==
    rs.phase \in {"Attempting", "Polling", "Succeeded", "Exhausted"} =>
        /\ rs.state.time = toDouble(rs.from.time, 0)
        /\ rs.state.paused = toBool(rs.from.paused, TRUE)
        /\ rs.phase = "Succeeded" =>
             /\ rs.sets = <<SeekTarget(toDouble(rs.from.time, 0),
                                       surface.duration)>>
             /\ rs.plays = PlayCalls(toBool(rs.from.paused, TRUE))

\* a restore that read position 500 has polled, a capture has meanwhile
\* overwritten the file with the position 0 of the new document, and the
\* element is ready (duration 200) for the next poll
C10_Witness ==
    /\ rs.phase = "Polling" /\ rs.polls > 0
    /\ rs.from.time = JNum(500) /\ rs.from.paused = JBool(FALSE)
    /\ stateFile.kind = "obj" /\ Members(stateFile) # rs.from
    /\ Members(stateFile).time = JNum(0)
    /\ surface.ready /\ surface.duration = 200

====
